---- MODULE Spec2Model ----
(***************************************************************************)
(* Model of the retrieval pipeline of AskMyDoc: the ingestion handler      *)
(* (src/App.tsx handleFileChange / handleReset), the question handler      *)
(* (ChatView.handleSendMessage), the embedding adapter                     *)
(* (src/services/geminiService.ts) and the in-memory vector index          *)
(* (src/services/vectorDb.ts).                                             *)
(*                                                                         *)
(* Specifications.  Spec: the ingestion handler under every configuration  *)
(* and document.  SpecChat: uploads, resets and questions interleaved.     *)
(* SpecDb: the index alone.  SpecChunker: the chunk loop alone.            *)
(* SpecAdapter: the two embedding functions alone.                         *)
(*                                                                         *)
(* Numbers.  Text is a sequence of one-character strings.  Embeddings are  *)
(* sequences of integers whose squared norm is a perfect square, so that   *)
(* Math.sqrt is exact and the IEEE quotient dot/(magA*magB) is the         *)
(* correctly rounded value of an exact rational: two similarities compare  *)
(* as floats exactly as the fractions below compare.  A similarity is the  *)
(* fraction [num, den]; den = 0 stands for NaN (0/0).  The progress        *)
(* percentages are computed in IEEE-754 binary64 as the code computes them: *)
(* a double is a 53-bit significand (most significant bit first) and a      *)
(* binary exponent, division and multiplication round to nearest, ties to   *)
(* even.                                                                    *)
(***************************************************************************)
EXTENDS Integers, Sequences, FiniteSets, TLC

VARIABLES
    appState,        \* App.tsx:21  AppState
    progress,        \* App.tsx:22  progress.percentage
    error,           \* App.tsx:23  error message, "null" when unset
    dbChunks,        \* vectorDb.ts:5  InMemoryVectorDB.chunks
    pc,              \* position of the running handleFileChange
    pdf,             \* App.tsx:27,47  the selected file: the text of each page
    numPages,        \* App.tsx:47  pdf.numPages
    page,            \* App.tsx:49  pages read so far
    fullText,        \* App.tsx:48
    chunks,          \* App.tsx:61
    i,               \* App.tsx:67  loop index of the batch loop
    processedCount,  \* App.tsx:65
    CHUNK_SIZE,      \* constants.ts:9   (scaled, fixed per behaviour)
    CHUNK_OVERLAP,   \* constants.ts:10  (scaled, fixed per behaviour)
    API_BATCH_SIZE,  \* App.tsx:17       (scaled, fixed per behaviour)
    calls,           \* history: batch adapter calls issued by this run
    outstanding,     \* history: batch adapter calls awaiting their response
    lastResponse,    \* history: the adapter response consumed last
    delays,          \* history: inter-batch delays started by this run
    reported,        \* history: percentages passed to setProgress by this run
    query,           \* vectorDb.ts:11  queryEmbedding of the last search
    topK,            \* vectorDb.ts:11  topK of the last search
    similarities,    \* vectorDb.ts:16  the (sorted) similarities array
    result,          \* vectorDb.ts:23  value returned by the last search
    lastOp,          \* history: InMemoryVectorDB method called by the last step
    sizeBefore,      \* history: index size when that step began
    context,         \* App.tsx:192  context assembled after the last search
    queries,         \* App.tsx:180  handleSendMessage calls in flight
    isLoading,       \* App.tsx:171  isLoading of the mounted ChatView
    lastMessage,     \* App.tsx:169  last entry of the mounted ChatView's messages
    returned         \* geminiService.ts:27,57  outcome of the last adapter call

vars == <<appState, progress, error, dbChunks, pc, pdf, numPages, page, fullText,
          chunks, i, processedCount, CHUNK_SIZE, CHUNK_OVERLAP, API_BATCH_SIZE,
          calls, outstanding, lastResponse, delays, reported,
          query, topK, similarities, result, lastOp, sizeBefore,
          context, queries, isLoading, lastMessage, returned>>

appVars == <<appState, progress, error, pc, pdf, numPages, page, fullText,
             chunks, i, processedCount, calls, outstanding, lastResponse,
             delays, reported>>

cfgVars == <<CHUNK_SIZE, CHUNK_OVERLAP, API_BATCH_SIZE>>

searchVars == <<query, topK, similarities, result, lastOp, sizeBefore>>

chatVars == <<queries, isLoading, lastMessage>>

----------------------------------------------------------------------------
(* Bounds *)

MaxPages == 2
MaxTextLen == 11
MaxBatchSize == 2
MaxDbSize == 3
MaxTopK == 4
MaxQueries == 1
MaxInputLen == 4
MaxChunkSize == 3

\* The text one PDF page can contribute (items joined by ' ').
LongPage == <<"a", "b", "c", "d", "e", "f", "g", "h", "i", "j">>
PageTexts == { <<>>, <<"a">>, <<" ">>, <<"a", "b">>, LongPage }

\* (CHUNK_SIZE, CHUNK_OVERLAP) pairs the build can be given in constants.ts:
\* size > overlap as shipped (scaled), size = overlap and size < overlap.
ChunkConfigs == { <<2, 1>>, <<3, 1>>, <<1, 1>>, <<1, 2>> }

\* Embedding vectors the adapter can return: dimension 2 and, for the
\* dimension anomaly, dimension 1.  Every squared norm is a perfect square.
Vectors == { <<1, 0>>, <<-1, 0>>, <<0, 1>>, <<3, 4>>, <<0, 0>>, <<1>> }

\* Vectors the document-embedding adapter returns during ingestion.
DocVectors == { <<1, 0>>, <<1>> }

----------------------------------------------------------------------------
(* JavaScript helpers *)

Min(a, b) == IF a < b THEN a ELSE b

\* Array.prototype.slice(start, end) for 0 <= start, 0 <= end.
slice(arr, start, end) == SubSeq(arr, start + 1, Min(end, Len(arr)))

----------------------------------------------------------------------------
(* IEEE-754 binary64 arithmetic on the values the progress formulas use.   *)
(* A double is [mant |-> 53 bits, exp |-> E], its value 1.f * 2^E.         *)

MantissaBits == 53

\* The number written by bits[from..to], most significant bit first.
RECURSIVE bitsValue(_, _, _)
bitsValue(bits, from, to) ==
    IF to < from THEN 0 ELSE 2 * bitsValue(bits, from, to - 1) + bits[to]

RECURSIVE natBits(_)
natBits(c) == IF c = 0 THEN <<>> ELSE natBits(c \div 2) \o <<c % 2>>

\* The lowest position p such that bits[p..Len] are all 1 (Len+1 if none).
RECURSIVE onesFrom(_, _)
onesFrom(bits, p) ==
    IF p >= 1 /\ bits[p] = 1 THEN onesFrom(bits, p - 1) ELSE p + 1

\* The bits f[1..n] as a sequence.
bitSeq(f, n) == SubSeq(f, 1, n)

\* Round a significand up by one unit in the last place; a carry out of the
\* top bit renormalises and raises the exponent.
roundUp(mant, exp) ==
    LET ones == onesFrom(mant, Len(mant))
    IN  IF ones = 1
        THEN [mant |-> bitSeq([j \in 1..Len(mant) |-> IF j = 1 THEN 1 ELSE 0], Len(mant)),
              exp |-> exp + 1]
        ELSE [mant |-> bitSeq([j \in 1..Len(mant) |->
                                  IF j < ones - 1 THEN mant[j]
                                  ELSE IF j = ones - 1 THEN 1 ELSE 0], Len(mant)),
              exp |-> exp]

RECURSIVE shiftFor(_, _)
shiftFor(a, n) == IF a >= n THEN 0 ELSE 1 + shiftFor(2 * a, n)

\* The remainder of the long division r / n after `count` binary digits.
RECURSIVE remAfter(_, _, _)
remAfter(r, n, count) ==
    IF count = 0 THEN r ELSE (2 * remAfter(r, n, count - 1)) % n

\* The double a / n for integers 1 <= a, 1 <= n.
fdiv(a, n) ==
    LET e == shiftFor(a, n)
        wide == natBits(IF e = 0 THEN a \div n ELSE 1)
        r0 == IF e = 0 THEN a % n ELSE a * (2 ^ e) - n
        digits == MantissaBits - Len(wide)
        mant == bitSeq([j \in 1..MantissaBits |->
                           IF j <= Len(wide) THEN wide[j]
                           ELSE (2 * remAfter(r0, n, j - Len(wide) - 1)) \div n],
                       MantissaBits)
        rem == remAfter(r0, n, digits)
        exp == IF e = 0 THEN Len(wide) - 1 ELSE 0 - e
    IN  IF 2 * rem > n \/ (2 * rem = n /\ mant[MantissaBits] = 1)
        THEN roundUp(mant, exp)
        ELSE [mant |-> mant, exp |-> exp]

\* The carry into position p of bits * k (position Len(bits) is the lowest).
RECURSIVE carryInto(_, _, _)
carryInto(bits, k, p) ==
    IF p >= Len(bits) THEN 0
    ELSE (bits[p + 1] * k + carryInto(bits, k, p + 1)) \div 2

\* The double x * k for a double x and an integer 1 <= k.
fmul(x, k) ==
    LET high == natBits(carryInto(x.mant, k, 0))
        extra == Len(high)
        product == bitSeq([j \in 1..(extra + MantissaBits) |->
                              IF j <= extra THEN high[j]
                              ELSE (x.mant[j - extra] * k
                                    + carryInto(x.mant, k, j - extra)) % 2],
                          extra + MantissaBits)
        top == bitSeq(product, MantissaBits)
        rest == bitsValue(product, MantissaBits + 1, MantissaBits + extra)
        half == IF extra = 0 THEN 0 ELSE 2 ^ (extra - 1)
    IN  IF extra > 0 /\ (rest > half \/ (rest = half /\ top[MantissaBits] = 1))
        THEN roundUp(top, x.exp + extra)
        ELSE [mant |-> top, exp |-> x.exp + extra]

\* Math.round(x) for a double 0 < x < 2^52: the nearest integer, halves up.
MathRound(x) ==
    IF x.exp < -1 THEN 0
    ELSE bitsValue(x.mant, 1, x.exp + 1)
         + (IF x.exp + 2 <= MantissaBits THEN x.mant[x.exp + 2] ELSE 0)

----------------------------------------------------------------------------

\* Math.sqrt on the perfect squares the model's vectors produce.
MathSqrt(n) == CHOOSE r \in 0..n : r * r = n

IsWhitespace(c) == c \in {" ", "\n"}

\* c.trim().length > 0
trimNonEmpty(c) == \E p \in 1..Len(c) : ~IsWhitespace(c[p])

----------------------------------------------------------------------------
(* Chunking, App.tsx:56-61 *)

RECURSIVE rawChunksFrom(_, _, _, _)
rawChunksFrom(text, start, size, overlap) ==
    IF start < Len(text)
    THEN <<slice(text, start, start + size)>>
         \o rawChunksFrom(text, start + (size - overlap), size, overlap)
    ELSE <<>>

\* Mutant: the window start advances by the whole size.
rawChunksNoOverlap(text, size, overlap) == rawChunksFrom(text, 0, size, 0)

\* Mutant: every window is one character longer, substring(i, i + CHUNK_SIZE + 1).
rawChunksLongWindows(text, size, overlap) == rawChunksFrom(text, 0, size + 1, overlap + 1)

rawChunks(text, size, overlap) == rawChunksFrom(text, 0, size, overlap)

filterChunks(raw) == SelectSeq(raw, trimNonEmpty)

----------------------------------------------------------------------------
(* Embedding adapter, geminiService.ts *)

\* What ai.models.embedContent can do for a batch of n texts: reject, answer
\* without an embeddings array, or answer with any number of vectors.
RECURSIVE SeqsOfLen(_, _)
SeqsOfLen(S, n) ==
    IF n = 0 THEN { <<>> }
    ELSE { Append(s, x) : s \in SeqsOfLen(S, n - 1), x \in S }

\* The PDF files that can be selected: 1..MaxPages pages, at most MaxTextLen
\* characters of extracted text (each page ends with a newline).
RECURSIVE extractedLength(_, _)
extractedLength(doc, n) ==
    IF n = 0 THEN 0 ELSE extractedLength(doc, n - 1) + Len(doc[n]) + 1

Documents ==
    { doc \in UNION { SeqsOfLen(PageTexts, n) : n \in 1..MaxPages } :
          extractedLength(doc, Len(doc)) <= MaxTextLen }

BatchResponses(n) ==
    { [kind |-> "reject", message |-> m, values |-> <<>>] :
          m \in {"RESOURCE_EXHAUSTED", "network"} }
    \cup { [kind |-> "noEmbeddings", message |-> "", values |-> <<>>] }
    \cup { [kind |-> "ok", message |-> "", values |-> v] :
          v \in UNION { SeqsOfLen(DocVectors, m) : m \in 0..(n + 1) } }

NoResponse == [kind |-> "none", message |-> "", values |-> <<>>]

\* geminiService.ts:11-17
handleError(message, doing) ==
    IF message = "RESOURCE_EXHAUSTED"
    THEN [ok |-> FALSE, message |-> "API quota exceeded", embeddings |-> <<>>]
    ELSE [ok |-> FALSE, message |-> "Failed to " \o doing, embeddings |-> <<>>]

\* Mutant: the count check accepts a response with surplus vectors.
generateEmbeddingsAtLeast(texts, response) ==
    IF response.kind = "reject"
    THEN handleError(response.message, "generate batch embeddings")
    ELSE IF response.kind = "noEmbeddings"
    THEN handleError("TypeError", "generate batch embeddings")
    ELSE IF Len(response.values) >= Len(texts)
    THEN [ok |-> TRUE, message |-> "", embeddings |-> response.values]
    ELSE handleError("Mismatch between number of texts and embeddings received.",
                     "generate batch embeddings")

\* geminiService.ts:57-77
generateEmbeddings(texts, response) ==
    IF response.kind = "reject"
    THEN handleError(response.message, "generate batch embeddings")
    ELSE IF response.kind = "noEmbeddings"
    THEN handleError("TypeError", "generate batch embeddings")
    ELSE IF Len(response.values) = Len(texts)
    THEN [ok |-> TRUE, message |-> "", embeddings |-> response.values]
    ELSE handleError("Mismatch between number of texts and embeddings received.",
                     "generate batch embeddings")

----------------------------------------------------------------------------
(* Vector index, vectorDb.ts *)

\* Mutant: the batch replaces the stored array instead of being pushed.
addReplaces(stored, newChunks) == newChunks

\* Mutant: the batch is put in front of the stored array (unshift).
addUnshifts(stored, newChunks) == newChunks \o stored

\* vectorDb.ts:7-9
add(stored, newChunks) == stored \o newChunks

\* Mutant: reset leaves the stored array alone.
resetKeeps(stored) == stored

\* Mutant: reset only truncates the stored array to its first segment.
resetTruncates(stored) == SubSeq(stored, 1, Min(1, Len(stored)))

\* vectorDb.ts:54-56
reset(stored) == <<>>

\* vectorDb.ts:58-60
isReady(stored) == Len(stored) > 0

RECURSIVE DotUpTo(_, _, _)
DotUpTo(a, b, n) == IF n = 0 THEN 0 ELSE DotUpTo(a, b, n - 1) + a[n] * b[n]

Number(n) == [num |-> n, den |-> 1]

IsNaN(s) == s.den = 0

\* Mutant: the zero-magnitude guard is missing, the quotient is 0/0.
cosineSimilarityNoZeroGuard(vecA, vecB) ==
    IF Len(vecA) # Len(vecB)
    THEN Number(-1)
    ELSE LET dotProduct == DotUpTo(vecA, vecB, Len(vecA))
             magA == MathSqrt(DotUpTo(vecA, vecA, Len(vecA)))
             magB == MathSqrt(DotUpTo(vecB, vecB, Len(vecA)))
         IN  [num |-> dotProduct, den |-> magA * magB]

\* vectorDb.ts:26-52
cosineSimilarity(vecA, vecB) ==
    IF Len(vecA) # Len(vecB)
    THEN Number(-1)
    ELSE LET dotProduct == DotUpTo(vecA, vecB, Len(vecA))
             magA == MathSqrt(DotUpTo(vecA, vecA, Len(vecA)))
             magB == MathSqrt(DotUpTo(vecB, vecB, Len(vecA)))
         IN  IF magA = 0 \/ magB = 0
             THEN Number(0)
             ELSE [num |-> dotProduct, den |-> magA * magB]

\* Sign of x - y for two similarities; NaN when either is NaN, which
\* Array.prototype.sort treats as 0.
SignOfDifference(x, y) ==
    LET d == x.num * y.den - y.num * x.den
    IN  IF IsNaN(x) \/ IsNaN(y) THEN 0
        ELSE IF d > 0 THEN 1 ELSE IF d < 0 THEN -1 ELSE 0

\* Mutant: ascending comparator, a.similarity - b.similarity.
compareFnAscending(a, b) == SignOfDifference(a.similarity, b.similarity)

\* vectorDb.ts:21  (a, b) => b.similarity - a.similarity
compareFn(a, b) == SignOfDifference(b.similarity, a.similarity)

\* Array.prototype.sort is stable: an element goes after every element it
\* does not strictly precede.
RECURSIVE InsertSorted(_, _)
InsertSorted(sorted, x) ==
    IF sorted = <<>> THEN <<x>>
    ELSE IF compareFn(Head(sorted), x) > 0
    THEN <<x>> \o sorted
    ELSE <<Head(sorted)>> \o InsertSorted(Tail(sorted), x)

RECURSIVE sortUpTo(_, _)
sortUpTo(arr, n) ==
    IF n = 0 THEN <<>> ELSE InsertSorted(sortUpTo(arr, n - 1), arr[n])

sort(arr) == sortUpTo(arr, Len(arr))

\* vectorDb.ts:16-21  the similarities array after the sort
sortedSimilarities(stored, queryEmbedding) ==
    sort([j \in 1..Len(stored) |->
            [chunk |-> stored[j],
             similarity |-> cosineSimilarity(queryEmbedding, stored[j].embedding)]])

\* vectorDb.ts:23  similarities.slice(0, topK).map(s => s.chunk)
topChunks(sorted, k) ==
    LET s == slice(sorted, 0, k)
    IN  [j \in 1..Len(s) |-> s[j].chunk]

\* vectorDb.ts:11-24
search(stored, queryEmbedding, k) ==
    IF Len(stored) = 0
    THEN <<>>
    ELSE topChunks(sortedSimilarities(stored, queryEmbedding), k)

----------------------------------------------------------------------------
(* Ingestion, App.tsx handleFileChange *)

\* Mutant: slice(i, API_BATCH_SIZE), the end not offset by i.
batchChunksTextEndNotOffset(allChunks, start, batchSize) ==
    slice(allChunks, start, batchSize)

\* App.tsx:68
batchChunksText(allChunks, start, batchSize) ==
    slice(allChunks, start, start + batchSize)

\* Mutant: id is the index within the batch only.
embeddedChunksLocalId(batch, start, batchEmbeddings) ==
    [index \in 1..Len(batch) |->
        [id |-> index - 1,
         text |-> batch[index],
         embedding |-> batchEmbeddings[index]]]

\* App.tsx:72-76
embeddedChunks(batch, start, batchEmbeddings) ==
    [index \in 1..Len(batch) |->
        [id |-> start + (index - 1),
         text |-> batch[index],
         embedding |-> batchEmbeddings[index]]]

\* Math.round((part / whole) * scale) for 1 <= part <= whole <= most,
\* evaluated once for every pair: roundedShare(scale, most)[whole][part].
roundedShare(scale, most) ==
    SubSeq([whole \in 1..most |->
               SubSeq([part \in 1..whole |->
                          MathRound(fmul(fdiv(part, whole), scale))], 1, whole)],
           1, most)

\* A document has at most one chunk per character of its text.
embeddingShare == roundedShare(85, MaxTextLen)

readingShare == roundedShare(15, MaxPages)

\* App.tsx:83
batchPercentage(processed, total) == 15 + embeddingShare[total][processed]

\* App.tsx:53
pagePercentage(p, n) == readingShare[n][p]

\* What a step that does not search leaves of the index call history: the
\* method it called ("none" when it called none); the locals of an earlier
\* search are gone.
IndexCall(method) ==
    /\ lastOp' = method
    /\ sizeBefore' = Len(dbChunks)
    /\ query' = <<>>
    /\ topK' = 0
    /\ similarities' = <<>>
    /\ result' = <<>>
    /\ context' = <<>>

\* App.tsx:28-31  a selection that is not a PDF only sets the error text.
\* The uploader is rendered in the INITIAL state only (App.tsx:120).
SelectNonPdf ==
    /\ appState = "INITIAL"
    /\ error # "Please select a PDF file."
    /\ error' = "Please select a PDF file."
    /\ IndexCall("none")
    /\ UNCHANGED <<appState, progress, dbChunks, pc, pdf, numPages, page, fullText,
                   chunks, i, processedCount, calls, outstanding, lastResponse,
                   delays, reported, returned>>
    /\ UNCHANGED cfgVars
    /\ UNCHANGED chatVars

\* App.tsx:32-36  the PDF library failed to load.
SelectPdfNoLibrary ==
    /\ appState = "INITIAL"
    /\ error' = "PDF processing library is not available."
    /\ appState' = "ERROR"
    /\ IndexCall("none")
    /\ UNCHANGED <<progress, dbChunks, pc, pdf, numPages, page, fullText,
                   chunks, i, processedCount, calls, outstanding, lastResponse,
                   delays, reported, returned>>
    /\ UNCHANGED cfgVars
    /\ UNCHANGED chatVars

\* App.tsx:38-46  up to the first await.
StartUpload(file) ==
    /\ appState = "INITIAL"
    /\ pdf' = file
    /\ error' = "null"
    /\ appState' = "PROCESSING"
    /\ dbChunks' = reset(dbChunks)
    /\ IndexCall("reset")
    /\ progress' = 0
    /\ reported' = <<0>>
    /\ pc' = "opening"
    /\ numPages' = 0
    /\ page' = 0
    /\ fullText' = <<>>
    /\ chunks' = <<>>
    /\ i' = 0
    /\ processedCount' = 0
    /\ calls' = <<>>
    /\ outstanding' = 0
    /\ lastResponse' = NoResponse
    /\ delays' = 0
    /\ UNCHANGED returned
    /\ UNCHANGED cfgVars
    /\ UNCHANGED chatVars

\* App.tsx:46-50  the document opens and the first page is requested.
OpenDocument ==
    /\ pc = "opening"
    /\ numPages' = Len(pdf)
    /\ pc' = "reading"
    /\ IndexCall("none")
    /\ UNCHANGED <<appState, progress, error, dbChunks, pdf, page, fullText,
                   chunks, i, processedCount, calls, outstanding, lastResponse,
                   delays, reported, returned>>
    /\ UNCHANGED cfgVars
    /\ UNCHANGED chatVars

\* App.tsx:96-100  any await of the reading phase rejects.
ReadFails ==
    /\ pc \in {"opening", "reading"}
    /\ error' = "pdf"
    /\ appState' = "ERROR"
    /\ pc' = "idle"
    /\ IndexCall("none")
    /\ UNCHANGED <<progress, dbChunks, pdf, numPages, page, fullText,
                   chunks, i, processedCount, calls, outstanding, lastResponse,
                   delays, reported, returned>>
    /\ UNCHANGED cfgVars
    /\ UNCHANGED chatVars

\* Mutant: the loop index never advances (i += 0).
chunkLoopNeverAdvances(text, size, overlap) == Len(text) = 0

\* App.tsx:57  for (let i = 0; i < fullText.length; i += CHUNK_SIZE - CHUNK_OVERLAP)
\* leaves the loop only if there is no text or the index advances.
chunkLoopEnds(text, size, overlap) == Len(text) = 0 \/ size - overlap > 0

\* App.tsx:50-70 (and 93-94 when there is nothing to embed): page `page+1`
\* arrives; after the last page the text is chunked and the first batch call
\* is issued.  When the chunk loop does not end the handler stays in it
\* (pc = "chunking"): it pushes chunks without bound and, the thread being
\* busy, no other handler runs again.
ReadPage ==
    /\ pc = "reading"
    /\ LET p == page + 1
           content == pdf[p]
           text == fullText \o content \o <<"\n">>
           pct == pagePercentage(p, numPages)
           ends == chunkLoopEnds(text, CHUNK_SIZE, CHUNK_OVERLAP)
           filtered == IF ends
                       THEN filterChunks(rawChunks(text, CHUNK_SIZE, CHUNK_OVERLAP))
                       ELSE <<>>
       IN  /\ page' = p
           /\ fullText' = text
           /\ IF p < numPages
              THEN /\ progress' = pct
                   /\ reported' = Append(reported, pct)
                   /\ UNCHANGED <<appState, pc, chunks, i, processedCount,
                                  calls, outstanding>>
              ELSE IF ~ends
              THEN /\ progress' = pct
                   /\ reported' = Append(reported, pct)
                   /\ pc' = "chunking"
                   /\ UNCHANGED <<appState, chunks, i, processedCount,
                                  calls, outstanding>>
              ELSE /\ chunks' = filtered
                   /\ i' = 0
                   /\ processedCount' = 0
                   /\ IF 0 < Len(filtered)
                      THEN /\ progress' = pct
                           /\ reported' = Append(reported, pct)
                           /\ calls' = <<[start |-> 0,
                                          texts |-> batchChunksText(filtered, 0, API_BATCH_SIZE)]>>
                           /\ outstanding' = outstanding + 1
                           /\ pc' = "embedding"
                           /\ UNCHANGED appState
                      ELSE /\ progress' = 100
                           /\ reported' = reported \o <<pct, 100>>
                           /\ appState' = "READY"
                           /\ pc' = "idle"
                           /\ UNCHANGED <<calls, outstanding>>
    /\ IndexCall("none")
    /\ UNCHANGED <<error, dbChunks, pdf, numPages, lastResponse, delays, returned>>
    /\ UNCHANGED cfgVars
    /\ UNCHANGED chatVars

\* Mutant: the delay is taken after the last batch as well.
delayFollowsEveryBatch(start, batchSize, total) == start + batchSize <= total

\* Mutant: the run is finished after its first batch.
delayFollowsNoBatch(start, batchSize, total) == FALSE

\* App.tsx:88  if (i + API_BATCH_SIZE < chunks.length)
delayFollows(start, batchSize, total) == start + batchSize < total

\* App.tsx:70-94 and 96-100: the batch call settles.  The responses are
\* those in which every embedding carries its values.
EmbedBatchReturns(response) ==
    /\ pc = "embedding"
    /\ LET batch == batchChunksText(chunks, i, API_BATCH_SIZE)
           r == generateEmbeddings(batch, response)
           done == processedCount + Len(batch)
           pct == batchPercentage(done, Len(chunks))
       IN  /\ response \in BatchResponses(Len(batch))
           /\ lastResponse' = response
           /\ outstanding' = outstanding - 1
           /\ IF r.ok
              THEN /\ dbChunks' = add(dbChunks, embeddedChunks(batch, i, r.embeddings))
                   /\ IndexCall("add")
                   /\ processedCount' = done
                   /\ IF delayFollows(i, API_BATCH_SIZE, Len(chunks))
                      THEN /\ progress' = pct
                           /\ reported' = Append(reported, pct)
                           /\ delays' = delays + 1
                           /\ pc' = "delay"
                           /\ UNCHANGED appState
                      ELSE /\ progress' = 100
                           /\ reported' = reported \o <<pct, 100>>
                           /\ appState' = "READY"
                           /\ pc' = "idle"
                           /\ UNCHANGED delays
                   /\ UNCHANGED error
              ELSE /\ error' = r.message
                   /\ appState' = "ERROR"
                   /\ pc' = "idle"
                   /\ IndexCall("none")
                   /\ UNCHANGED <<dbChunks, processedCount, progress, reported, delays>>
    /\ UNCHANGED <<pdf, numPages, page, fullText, chunks, i, calls, returned>>
    /\ UNCHANGED cfgVars
    /\ UNCHANGED chatVars

\* App.tsx:89, 67-70: the delay elapses and the next batch call is issued.
DelayElapses ==
    /\ pc = "delay"
    /\ i' = i + API_BATCH_SIZE
    /\ calls' = Append(calls, [start |-> i + API_BATCH_SIZE,
                               texts |-> batchChunksText(chunks, i + API_BATCH_SIZE,
                                                         API_BATCH_SIZE)])
    /\ outstanding' = outstanding + 1
    /\ pc' = "embedding"
    /\ IndexCall("none")
    /\ UNCHANGED <<appState, progress, error, dbChunks, pdf, numPages, page, fullText,
                   chunks, processedCount, lastResponse, delays, reported, returned>>
    /\ UNCHANGED cfgVars
    /\ UNCHANGED chatVars

\* Leaving READY unmounts the ChatView (App.tsx:124): its state is gone and
\* the handlers it started go on without a component to update.
unmounted(handlers) ==
    [q \in 1..Len(handlers) |-> [handlers[q] EXCEPT !.mounted = FALSE]]

\* App.tsx:103-109.  The handler of the finished run has returned: its file,
\* its locals and the history of the run are gone.
handleReset ==
    /\ appState \in {"READY", "ERROR"}
    /\ appState' = "INITIAL"
    /\ error' = "null"
    /\ progress' = 0
    /\ dbChunks' = reset(dbChunks)
    /\ IndexCall("reset")
    /\ pdf' = <<>>
    /\ numPages' = 0
    /\ page' = 0
    /\ fullText' = <<>>
    /\ chunks' = <<>>
    /\ i' = 0
    /\ processedCount' = 0
    /\ calls' = <<>>
    /\ lastResponse' = NoResponse
    /\ delays' = 0
    /\ reported' = <<>>
    /\ queries' = unmounted(queries)
    /\ isLoading' = FALSE
    /\ lastMessage' = "none"
    /\ UNCHANGED <<pc, outstanding, returned>>
    /\ UNCHANGED cfgVars

----------------------------------------------------------------------------
(* Questions, App.tsx ChatView.handleSendMessage *)

\* App.tsx:191  vectorDB.search(queryEmbedding, 5)
contextTopK == 5

\* App.tsx:192  '\n---\n'
separator == <<"\n", "-", "-", "-", "\n">>

\* Array.prototype.join
RECURSIVE joinUpTo(_, _, _)
joinUpTo(texts, n, sep) ==
    IF n = 0 THEN <<>>
    ELSE IF n = 1 THEN texts[1]
    ELSE joinUpTo(texts, n - 1, sep) \o sep \o texts[n]

\* Mutant: the texts are joined worst first.
contextOfWorstFirst(contextChunks) ==
    joinUpTo([j \in 1..Len(contextChunks) |->
                 contextChunks[Len(contextChunks) + 1 - j].text],
             Len(contextChunks), separator)

\* App.tsx:192  contextChunks.map(c => c.text).join('\n---\n')
contextOf(contextChunks) ==
    joinUpTo([j \in 1..Len(contextChunks) |-> contextChunks[j].text],
             Len(contextChunks), separator)

\* Mutant: search sorts the stored array itself.
storedAfterSearchSortedInPlace(stored, queryEmbedding) ==
    LET sorted == sortedSimilarities(stored, queryEmbedding)
    IN  [j \in 1..Len(stored) |-> sorted[j].chunk]

\* vectorDb.ts:16-23  map builds a new array; the sort and the slice work on
\* that array, this.chunks is only read.
storedAfterSearch(stored, queryEmbedding) == stored

\* What ai.models.embedContent can do for one text: reject, answer without
\* an embeddings array, with an empty one, with an embedding that has no
\* values (kind "partial": the entries <<>> have none), or with a vector.
QueryVectors == {<<1, 0>>, <<-1, 0>>, <<1>>}

SingleResponses ==
    { [kind |-> "reject", message |-> m, values |-> <<>>] :
          m \in {"RESOURCE_EXHAUSTED", "network"} }
    \cup { [kind |-> "noEmbeddings", message |-> "", values |-> <<>>] }
    \cup { [kind |-> "ok", message |-> "", values |-> <<>>] }
    \cup { [kind |-> "partial", message |-> "", values |-> << <<>> >>] }
    \cup { [kind |-> "ok", message |-> "", values |-> <<v>>] : v \in QueryVectors }

\* geminiService.ts:27-48
generateEmbedding(response) ==
    IF response.kind = "reject"
    THEN handleError(response.message, "generate single embedding")
    ELSE IF \/ response.kind = "noEmbeddings"
            \/ Len(response.values) = 0
            \/ (response.kind = "partial" /\ response.values[1] = <<>>)
    THEN handleError("Invalid embedding format received from API.",
                     "generate single embedding")
    ELSE [ok |-> TRUE, message |-> "", embeddings |-> <<response.values[1]>>]

RemoveAt(handlers, q) ==
    SubSeq(handlers, 1, q - 1) \o SubSeq(handlers, q + 1, Len(handlers))

\* App.tsx:180-190  up to the first await.  The form is part of the ChatView,
\* rendered in the READY state only (App.tsx:124); the question is not blank.
SendMessage ==
    /\ appState = "READY"
    /\ ~isLoading
    /\ Len(queries) < MaxQueries
    /\ lastMessage' = "user"
    /\ isLoading' = TRUE
    /\ queries' = Append(queries, [stage |-> "embedding", mounted |-> TRUE])
    /\ IndexCall("none")
    /\ UNCHANGED dbChunks
    /\ UNCHANGED appVars
    /\ UNCHANGED cfgVars
    /\ UNCHANGED returned

\* App.tsx:190-194 and 207-223: the query embedding call of handler q
\* settles.  With an embedding the index is searched, the context is built
\* and the answer is requested; otherwise the error is shown and the handler
\* ends.  A handler whose ChatView is gone updates nothing.
QueryEmbeddingReturns(q, response) ==
    /\ q \in 1..Len(queries)
    /\ queries[q].stage = "embedding"
    /\ response \in SingleResponses
    /\ LET r == generateEmbedding(response)
           queryEmbedding == r.embeddings[1]
       IN  IF r.ok
           THEN /\ query' = queryEmbedding
                /\ topK' = contextTopK
                /\ similarities' = IF Len(dbChunks) = 0 THEN <<>>
                                   ELSE sortedSimilarities(dbChunks, queryEmbedding)
                /\ result' = IF Len(dbChunks) = 0 THEN <<>>
                             ELSE topChunks(similarities', contextTopK)
                /\ context' = contextOf(result')
                /\ lastOp' = "search"
                /\ sizeBefore' = Len(dbChunks)
                /\ dbChunks' = storedAfterSearch(dbChunks, queryEmbedding)
                /\ queries' = [queries EXCEPT ![q].stage = "answering"]
                /\ UNCHANGED <<isLoading, lastMessage>>
           ELSE /\ IndexCall("none")
                /\ queries' = RemoveAt(queries, q)
                /\ lastMessage' = IF queries[q].mounted THEN r.message ELSE lastMessage
                /\ isLoading' = IF queries[q].mounted THEN FALSE ELSE isLoading
                /\ UNCHANGED dbChunks
    /\ UNCHANGED appVars
    /\ UNCHANGED cfgVars
    /\ UNCHANGED returned

\* App.tsx:194-197 and 207-223: the answer request of handler q settles: the
\* stream opens and the empty assistant message is appended, or the request
\* fails.
AnswerStreamOpens(q, ok) ==
    /\ q \in 1..Len(queries)
    /\ queries[q].stage = "answering"
    /\ IF ok
       THEN /\ queries' = [queries EXCEPT ![q].stage = "streaming"]
            /\ lastMessage' = IF queries[q].mounted THEN "assistant" ELSE lastMessage
            /\ UNCHANGED isLoading
       ELSE /\ queries' = RemoveAt(queries, q)
            /\ lastMessage' = IF queries[q].mounted
                              THEN "Could not get an answer from the AI model."
                              ELSE lastMessage
            /\ isLoading' = IF queries[q].mounted THEN FALSE ELSE isLoading
    /\ IndexCall("none")
    /\ UNCHANGED dbChunks
    /\ UNCHANGED appVars
    /\ UNCHANGED cfgVars
    /\ UNCHANGED returned

\* App.tsx:199-223: the stream of handler q ends, or breaks; the texts it
\* delivered are not modelled.
StreamEnds(q, ok) ==
    /\ q \in 1..Len(queries)
    /\ queries[q].stage = "streaming"
    /\ queries' = RemoveAt(queries, q)
    /\ lastMessage' = IF queries[q].mounted
                      THEN (IF ok THEN "answer" ELSE "stream failed")
                      ELSE lastMessage
    /\ isLoading' = IF queries[q].mounted THEN FALSE ELSE isLoading
    /\ IndexCall("none")
    /\ UNCHANGED dbChunks
    /\ UNCHANGED appVars
    /\ UNCHANGED cfgVars
    /\ UNCHANGED returned

----------------------------------------------------------------------------

NoReturn ==
    [fn |-> "none", texts |-> <<>>, response |-> NoResponse,
     outcome |-> [ok |-> FALSE, message |-> "", embeddings |-> <<>>]]

InitDb ==
    /\ dbChunks = <<>>
    /\ query = <<>>
    /\ topK = 0
    /\ similarities = <<>>
    /\ result = <<>>
    /\ context = <<>>
    /\ lastOp = "new"
    /\ sizeBefore = 0

InitHandlers ==
    /\ appState = "INITIAL"
    /\ progress = 0
    /\ error = "null"
    /\ pc = "idle"
    /\ pdf = <<>>
    /\ numPages = 0
    /\ page = 0
    /\ chunks = <<>>
    /\ i = 0
    /\ processedCount = 0
    /\ calls = <<>>
    /\ outstanding = 0
    /\ lastResponse = NoResponse
    /\ delays = 0
    /\ reported = <<>>
    /\ queries = <<>>
    /\ isLoading = FALSE
    /\ lastMessage = "none"
    /\ returned = NoReturn

InitApp ==
    /\ InitHandlers
    /\ fullText = <<>>

\* The ingestion handler under every configuration, valid or not.
Init ==
    /\ InitApp
    /\ InitDb
    /\ \E c \in ChunkConfigs : CHUNK_SIZE = c[1] /\ CHUNK_OVERLAP = c[2]
    /\ API_BATCH_SIZE \in 1..MaxBatchSize

Next ==
    \/ SelectNonPdf
    \/ SelectPdfNoLibrary
    \/ \E file \in Documents : StartUpload(file)
    \/ OpenDocument
    \/ ReadFails
    \/ ReadPage
    \/ \E response \in BatchResponses(MaxBatchSize) : EmbedBatchReturns(response)
    \/ DelayElapses
    \/ handleReset

Spec == Init /\ [][Next]_vars

\* Every await of the running handleFileChange settles: the promises of the
\* PDF library (App.tsx:46-51) resolve or reject, the adapter call of the
\* batch (App.tsx:70) is answered or fails, the timer of the delay
\* (App.tsx:89) fires.
ReadSettles == OpenDocument \/ ReadPage \/ ReadFails

BatchSettles == \E response \in BatchResponses(MaxBatchSize) : EmbedBatchReturns(response)

Fairness ==
    /\ WF_vars(ReadSettles)
    /\ WF_vars(BatchSettles)
    /\ WF_vars(DelayElapses)

SpecFair == Init /\ [][Next]_vars /\ Fairness

----------------------------------------------------------------------------
(* The whole app, uploads and questions interleaved, on documents of one   *)
(* page under one configuration.                                           *)

\* A page of six characters (seven chunks of two with the newline, the last
\* one blank), a page of one character, and a blank page.
MediumPage == <<"a", "b", "c", "d", "e", "f">>

ChatDocuments == { <<MediumPage>>, << <<"a">> >>, << <<" ">> >> }

InitChat ==
    /\ InitApp
    /\ InitDb
    /\ CHUNK_SIZE = 2
    /\ CHUNK_OVERLAP = 1
    /\ API_BATCH_SIZE \in 1..MaxBatchSize

NextChat ==
    \/ SelectNonPdf
    \/ SelectPdfNoLibrary
    \/ \E file \in ChatDocuments : StartUpload(file)
    \/ OpenDocument
    \/ ReadFails
    \/ ReadPage
    \/ \E response \in BatchResponses(MaxBatchSize) : EmbedBatchReturns(response)
    \/ DelayElapses
    \/ handleReset
    \/ SendMessage
    \/ \E q \in 1..MaxQueries, response \in SingleResponses :
          QueryEmbeddingReturns(q, response)
    \/ \E q \in 1..MaxQueries, ok \in BOOLEAN : AnswerStreamOpens(q, ok)
    \/ \E q \in 1..MaxQueries, ok \in BOOLEAN : StreamEnds(q, ok)

SpecChat == InitChat /\ [][NextChat]_vars

----------------------------------------------------------------------------
(* The vector index on its own: any sequence of add / search / reset.      *)
(* query, topK, similarities and result are the arguments, the local and    *)
(* the return value of the last call when that call was a search; they do   *)
(* not outlive it.                                                          *)

\* Segments as the ingestion builds them: ids continue the insertion order.
newSegments(stored, vecs) ==
    [j \in 1..Len(vecs) |->
        [id |-> Len(stored) + (j - 1), text |-> <<"a">>, embedding |-> vecs[j]]]

\* vectorDb.ts:7-9
DbAdd(vecs) ==
    /\ Len(dbChunks) + Len(vecs) <= MaxDbSize
    /\ dbChunks' = add(dbChunks, newSegments(dbChunks, vecs))
    /\ lastOp' = "add"
    /\ query' = <<>>
    /\ topK' = 0
    /\ similarities' = <<>>
    /\ result' = <<>>
    /\ sizeBefore' = Len(dbChunks)
    /\ UNCHANGED appVars
    /\ UNCHANGED cfgVars
    /\ UNCHANGED chatVars
    /\ UNCHANGED <<context, returned>>

\* vectorDb.ts:11-24
DbSearch(queryEmbedding) ==
    /\ query' = queryEmbedding
    /\ similarities' = IF Len(dbChunks) = 0 THEN <<>>
                       ELSE sortedSimilarities(dbChunks, queryEmbedding)
    /\ \E k \in 0..MaxTopK :
          /\ topK' = k
          /\ result' = IF Len(dbChunks) = 0 THEN <<>> ELSE topChunks(similarities', k)
    /\ lastOp' = "search"
    /\ sizeBefore' = Len(dbChunks)
    /\ UNCHANGED dbChunks
    /\ UNCHANGED appVars
    /\ UNCHANGED cfgVars
    /\ UNCHANGED chatVars
    /\ UNCHANGED <<context, returned>>

\* vectorDb.ts:54-56
DbReset ==
    /\ dbChunks' = reset(dbChunks)
    /\ lastOp' = "reset"
    /\ query' = <<>>
    /\ topK' = 0
    /\ similarities' = <<>>
    /\ result' = <<>>
    /\ sizeBefore' = Len(dbChunks)
    /\ UNCHANGED appVars
    /\ UNCHANGED cfgVars
    /\ UNCHANGED chatVars
    /\ UNCHANGED <<context, returned>>

NextDb ==
    \/ \E vecs \in SeqsOfLen(Vectors, 1) \cup SeqsOfLen(DocVectors, 2) : DbAdd(vecs)
    \/ \E queryEmbedding \in Vectors : DbSearch(queryEmbedding)
    \/ DbReset

\* The index does not read the ingestion configuration.
InitIndex ==
    /\ InitApp
    /\ InitDb
    /\ CHUNK_SIZE = 2
    /\ CHUNK_OVERLAP = 1
    /\ API_BATCH_SIZE = 1

SpecDb == InitIndex /\ [][NextDb]_vars

----------------------------------------------------------------------------
(* The chunker on its own, App.tsx:56-61: any text under any configuration  *)
(* with size > overlap >= 0.                                                *)

Alphabet == {"a", "b", " "}

InputTexts == UNION { SeqsOfLen(Alphabet, n) : n \in 0..MaxInputLen }

ValidConfigs ==
    { c \in (1..MaxChunkSize) \X (0..MaxChunkSize) : c[1] > c[2] }

InitChunker ==
    /\ InitHandlers
    /\ InitDb
    /\ fullText \in InputTexts
    /\ \E c \in ValidConfigs : CHUNK_SIZE = c[1] /\ CHUNK_OVERLAP = c[2]
    /\ API_BATCH_SIZE = 1

\* App.tsx:56-61
Chunk ==
    /\ pc = "idle"
    /\ chunks' = filterChunks(rawChunks(fullText, CHUNK_SIZE, CHUNK_OVERLAP))
    /\ pc' = "chunked"
    /\ UNCHANGED <<appState, progress, error, dbChunks, pdf, numPages, page, fullText,
                   i, processedCount, calls, outstanding, lastResponse, delays,
                   reported, context, returned>>
    /\ UNCHANGED cfgVars
    /\ UNCHANGED searchVars
    /\ UNCHANGED chatVars

NextChunker == Chunk

SpecChunker == InitChunker /\ [][NextChunker]_vars

----------------------------------------------------------------------------
(* The embedding adapter on its own, geminiService.ts:27-77: either        *)
(* function applied to any batch and any response.                          *)

TextBatches == UNION { SeqsOfLen({<<"a">>, <<"b">>}, n) : n \in 0..MaxBatchSize }

\* Responses in which some embedding has no values (ContentEmbedding.values
\* is optional): the entries <<>> stand for those embeddings.
PartialResponses(n) ==
    { [kind |-> "partial", message |-> "", values |-> v] :
          v \in { w \in UNION { SeqsOfLen(DocVectors \cup {<<>>}, m) : m \in 1..(n + 1) } :
                      \E j \in 1..Len(w) : w[j] = <<>> } }

\* geminiService.ts:57-77
CallGenerateEmbeddings(texts, response) ==
    /\ response \in BatchResponses(Len(texts)) \cup PartialResponses(Len(texts))
    /\ returned' = [fn |-> "generateEmbeddings", texts |-> texts,
                    response |-> response,
                    outcome |-> generateEmbeddings(texts, response)]
    /\ UNCHANGED dbChunks
    /\ UNCHANGED appVars
    /\ UNCHANGED cfgVars
    /\ UNCHANGED searchVars
    /\ UNCHANGED chatVars
    /\ UNCHANGED context

\* geminiService.ts:27-48
CallGenerateEmbedding(text, response) ==
    /\ returned' = [fn |-> "generateEmbedding", texts |-> <<text>>,
                    response |-> response,
                    outcome |-> generateEmbedding(response)]
    /\ UNCHANGED dbChunks
    /\ UNCHANGED appVars
    /\ UNCHANGED cfgVars
    /\ UNCHANGED searchVars
    /\ UNCHANGED chatVars
    /\ UNCHANGED context

NextAdapter ==
    \/ \E texts \in TextBatches,
          response \in BatchResponses(MaxBatchSize) \cup PartialResponses(MaxBatchSize) :
          CallGenerateEmbeddings(texts, response)
    \/ \E text \in {<<"a">>, <<"b">>}, response \in SingleResponses :
          CallGenerateEmbedding(text, response)

SpecAdapter == InitIndex /\ [][NextAdapter]_vars

----------------------------------------------------------------------------
(* Properties of the ingestion run, checked under Spec                     *)

CeilDiv(n, b) == (n + b - 1) \div b

\* The number of raw chunks of the run's text that are not whitespace-only.
NonEmptyRawCount ==
    LET raw == rawChunks(fullText, CHUNK_SIZE, CHUNK_OVERLAP)
    IN  Cardinality({ p \in 1..Len(raw) : \E c \in 1..Len(raw[p]) :
                          raw[p][c] \notin {" ", "\n"} })

RunSucceeded == appState = "READY" /\ pc = "idle"

\* C1: a successful run of N chunks with batch size B has issued exactly
\* ceil(N/B) batch calls, the j-th carrying chunks [j*B, min((j+1)*B, N)) in
\* order (at most B texts), and the index then holds N segments, one per
\* non-empty chunk.
C1_Batching ==
    RunSucceeded =>
        LET N == Len(chunks)
            B == API_BATCH_SIZE
        IN  /\ Len(calls) = CeilDiv(N, B)
            /\ \A j \in 0..(Len(calls) - 1) :
                 LET hi == IF (j + 1) * B < N THEN (j + 1) * B ELSE N
                 IN  /\ calls[j + 1].texts = [p \in 1..(hi - j * B) |-> chunks[j * B + p]]
                     /\ Len(calls[j + 1].texts) <= B
                     /\ Len(calls[j + 1].texts) >= 1
            /\ Len(dbChunks) = N
            /\ N = NonEmptyRawCount

\* C1 witness: a finished run of two batches whose last batch is short.
C1_Witness ==
    /\ RunSucceeded
    /\ Len(calls) = 2
    /\ Len(calls[2].texts) < API_BATCH_SIZE
    /\ Len(dbChunks) = 3

RECURSIVE TextsInCalls(_, _)
TextsInCalls(cs, n) ==
    IF n = 0 THEN 0 ELSE TextsInCalls(cs, n - 1) + Len(cs[n].texts)

\* C2: at most one batch call is outstanding, and while the call of a batch
\* is outstanding the index already holds all chunks of the earlier batches.
C2_SequentialIncremental ==
    /\ outstanding \in {0, 1}
    /\ (outstanding = 1) <=> (pc = "embedding")
    /\ pc = "embedding" =>
          /\ Len(calls) >= 1
          /\ Len(dbChunks) = TextsInCalls(calls, Len(calls) - 1)
          /\ Len(dbChunks) = calls[Len(calls)].start

\* C2 witness: the third batch call is outstanding, two batches committed.
C2_Witness ==
    /\ pc = "embedding"
    /\ Len(calls) = 3
    /\ Len(dbChunks) >= 2

\* The response that has just been consumed has a vector count different
\* from the batch it answers.
CountMismatchConsumed ==
    /\ outstanding' = outstanding - 1
    /\ lastResponse'.kind = "ok"
    /\ Len(lastResponse'.values) # Len(calls[Len(calls)].texts)

\* C3: a response whose vector count differs from the batch's text count
\* fails the run and adds no segment of that batch to the index.
C3_CountMismatchFatal ==
    [][ CountMismatchConsumed =>
          /\ appState' = "ERROR"
          /\ error' = "Failed to generate batch embeddings"
          /\ dbChunks' = dbChunks ]_vars

\* C3 witness: a run failed on a response shorter than its batch, after an
\* earlier batch had been committed.
C3_Witness ==
    /\ appState = "ERROR"
    /\ calls # <<>>
    /\ lastResponse.kind = "ok"
    /\ Len(lastResponse.values) < Len(calls[Len(calls)].texts)
    /\ Len(dbChunks) > 0

\* The index holds exactly the segments of chunks 0..n-1, in order.
HoldsFirstChunks(stored, n) ==
    /\ Len(stored) = n
    /\ \A p \in 1..n : stored[p].id = p - 1 /\ stored[p].text = chunks[p]

C5_IdsContiguous ==
    /\ \A p \in 1..Len(dbChunks) :
          /\ dbChunks[p].id = p - 1
          /\ dbChunks[p].text = chunks[p]
    /\ pc \in {"embedding", "delay"} => Len(dbChunks) = processedCount
    /\ pc = "embedding" => i = processedCount

\* C5 witness: segments of a second batch are in the index.
C5_Witness ==
    /\ Len(calls) >= 2
    /\ Len(dbChunks) > API_BATCH_SIZE
    /\ dbChunks[Len(dbChunks)].id = Len(dbChunks) - 1
    /\ API_BATCH_SIZE = 2

\* C6: the percentage reported after the b-th batch is
\* 15 + round(85 * processedCount / totalCount), and the percentages one run
\* reports are non-decreasing and within 0..100.
C6_Progress ==
    /\ \A p \in 1..Len(reported) : reported[p] \in 0..100
    /\ \A p \in 1..Len(reported), q \in 1..Len(reported) :
          p < q => reported[p] <= reported[q]
    /\ progress \in 0..100
    /\ appState \in {"PROCESSING", "READY"} => progress = reported[Len(reported)]
    /\ \A b \in 1..CeilDiv(processedCount, API_BATCH_SIZE) :
          LET done == IF b * API_BATCH_SIZE < Len(chunks)
                      THEN b * API_BATCH_SIZE ELSE Len(chunks)
          IN  reported[1 + numPages + b]
                = 15 + ((2 * 85 * done + Len(chunks)) \div (2 * Len(chunks)))

\* C14: within a run a delay is taken after every batch but the last and
\* before the next adapter call: a finished run of ceil(N/B) batches took
\* ceil(N/B) - 1 delays, a batch size above N gives one batch and no delay,
\* and no chunk gives no call, no delay, an empty index and progress 100.
C14_DelayBetweenBatches ==
    /\ pc = "embedding" => delays = Len(calls) - 1
    /\ pc = "delay" => delays = Len(calls) /\ outstanding = 0
    /\ RunSucceeded =>
          LET N == Len(chunks)
              B == API_BATCH_SIZE
          IN  /\ N > 0 => delays = CeilDiv(N, B) - 1 /\ Len(calls) = delays + 1
              /\ (N > 0 /\ B > N) => Len(calls) = 1 /\ delays = 0
              /\ N = 0 => /\ calls = <<>>
                          /\ delays = 0
                          /\ dbChunks = <<>>
                          /\ progress = 100
                          /\ reported[Len(reported)] = 100

\* C14 witness: a finished run of three batches and two delays.
C14_Witness ==
    /\ RunSucceeded
    /\ Len(calls) = 3
    /\ delays = 2
    /\ Len(dbChunks) > 2 * API_BATCH_SIZE


\* C19: with chunk size <= chunk overlap an InvalidInput error is surfaced at
\* once and the ingestion does not start: no chunk is produced, no adapter
\* call is issued and the index is not modified.
C19_InvalidConfigRejected ==
    CHUNK_SIZE <= CHUNK_OVERLAP =>
        /\ appState # "PROCESSING"
        /\ pc \notin {"opening", "reading", "chunking"}
        /\ pdf # <<>> => appState = "ERROR" /\ error = "InvalidInput"
        /\ chunks = <<>>
        /\ calls = <<>>
        /\ lastOp \in {"new", "none"}


\* The work of a run is finite: no more chunks than characters, one call per
\* batch of the chunks, a delay before every call but the first, one read
\* per page.
RunBounded ==
    /\ page <= numPages
    /\ numPages <= Len(pdf)
    /\ Len(chunks) <= Len(fullText)
    /\ Len(calls) <= CeilDiv(Len(chunks), API_BATCH_SIZE)
    /\ delays <= Len(calls)
    /\ pc = "embedding" => delays = Len(calls) - 1

\* C21: every ingestion run terminates: if every adapter call and every
\* delay completes or fails, and size > overlap, a run that entered
\* PROCESSING reaches READY or ERROR after finitely many chunks, batches and
\* delays.
C21_RunTerminates ==
    /\ []RunBounded
    /\ (appState = "PROCESSING" /\ CHUNK_SIZE > CHUNK_OVERLAP)
          ~> (appState \in {"READY", "ERROR"})

\* C21 witness: a run of ten chunks, one per batch, has ended in READY after
\* ten calls and nine delays.
C21_Witness ==
    /\ CHUNK_SIZE > CHUNK_OVERLAP
    /\ appState = "READY"
    /\ Len(chunks) = 10
    /\ API_BATCH_SIZE = 1
    /\ Len(calls) = 10
    /\ delays = 9


----------------------------------------------------------------------------
(* Properties of the chunker, checked under SpecChunker                    *)

Chunked == pc = "chunked"

\* The window starts 0, step, 2*step, ... below the length of the text.
WindowStarts == { s \in 0..(Len(fullText) - 1) : s % (CHUNK_SIZE - CHUNK_OVERLAP) = 0 }

\* T[s : s+size], cut at the end of the text.
Window(s) ==
    [p \in 1..((IF s + CHUNK_SIZE < Len(fullText) THEN s + CHUNK_SIZE ELSE Len(fullText)) - s)
        |-> fullText[s + p]]

BlankWindow(s) == \A p \in 1..Len(Window(s)) : Window(s)[p] \in {" ", "\n"}

KeptStarts == { s \in WindowStarts : ~BlankWindow(s) }

\* The chunks of the 2500-character text of the example, size 1000 and
\* overlap 200.
ExampleChunks == filterChunks(rawChunks([p \in 1..2500 |-> "a"], 1000, 200))

\* C11: for size > overlap >= 0 the chunks are, in order, exactly the windows
\* T[s : s+size] for s = 0, step, 2*step, ... below the length of T that are
\* not blank after trimming; blank or empty text gives no chunk; 2500
\* non-blank characters with size 1000 and overlap 200 give 4 chunks, starting
\* at 0, 800, 1600 and 2400.
C11_ChunkWindows ==
    /\ Chunked =>
          /\ Len(chunks) = Cardinality(KeptStarts)
          /\ \A s \in KeptStarts :
                chunks[1 + Cardinality({ t \in KeptStarts : t < s })] = Window(s)
          /\ (\A p \in 1..Len(fullText) : fullText[p] = " ") => chunks = <<>>
    /\ Len(ExampleChunks) = 4
    /\ \A k \in 1..4 :
          Len(ExampleChunks[k]) = (IF 800 * (k - 1) + 1000 < 2500
                                   THEN 1000 ELSE 2500 - 800 * (k - 1))

\* C11 witness: overlapping windows, the last one short, a blank one dropped
\* between two that are kept.
C11_Witness ==
    /\ Chunked
    /\ CHUNK_OVERLAP > 0
    /\ Len(chunks) >= 2
    /\ Len(chunks[Len(chunks)]) < CHUNK_SIZE
    /\ \E s \in WindowStarts, t \in KeptStarts, u \in KeptStarts :
          t < s /\ s < u /\ BlankWindow(s)

\* c.substring(overlap)
DropFirst(c, n) == SubSeq(c, n + 1, Len(c))

\* The first chunk whole, every later chunk without its first `overlap`
\* characters.
RECURSIVE RejoinUpTo(_, _, _)
RejoinUpTo(cs, n, overlap) ==
    IF n = 0 THEN <<>>
    ELSE IF n = 1 THEN cs[1]
    ELSE RejoinUpTo(cs, n - 1, overlap) \o DropFirst(cs[n], overlap)

Rejoin(cs, overlap) == RejoinUpTo(cs, Len(cs), overlap)

----------------------------------------------------------------------------
(* Properties of the embedding adapter, checked under SpecAdapter          *)

\* The call made last failed: the transport rejected it, the response has no
\* embeddings array, an embedding without values, or (batch) a number of
\* embeddings other than the number of texts, or (single) no embedding.
AdapterCallFailed ==
    \/ returned.response.kind \in {"reject", "noEmbeddings", "partial"}
    \/ /\ returned.fn = "generateEmbeddings"
       /\ Len(returned.response.values) # Len(returned.texts)
    \/ /\ returned.fn = "generateEmbedding"
       /\ Len(returned.response.values) = 0

QuotaReported ==
    returned.response.kind = "reject" /\ returned.response.message = "RESOURCE_EXHAUSTED"

\* C15: every failed embedding call, single or batch, is raised to the caller
\* and never returned as a value, and the error raised for a reported
\* resource exhaustion differs from the error of every other failure.
C15_FailuresRaised ==
    (returned.fn # "none" /\ AdapterCallFailed) =>
        /\ ~returned.outcome.ok
        /\ QuotaReported <=> (returned.outcome.message = "API quota exceeded")

----------------------------------------------------------------------------
(* Properties of the vector index, checked under SpecDb                    *)

\* The similarity the last search gave the j-th stored segment.
SimOf(j) == cosineSimilarity(query, dbChunks[j].embedding)

\* Exact comparison of two defined similarities.
SimGreater(x, y) == x.num * y.den > y.num * x.den
SimEqual(x, y) == x.num * y.den = y.num * x.den

\* Segment f is ranked before segment j: more similar, or equally similar
\* and inserted earlier.
RankedBefore(f, j) ==
    \/ SimGreater(SimOf(f), SimOf(j))
    \/ SimEqual(SimOf(f), SimOf(j)) /\ f < j

RankOf(j) == 1 + Cardinality({ f \in 1..Len(dbChunks) : RankedBefore(f, j) })

Searched == lastOp = "search" /\ Len(dbChunks) > 0

\* C7: on a non-empty index search returns the first min(k, count) segments
\* by descending similarity, equal similarities in insertion order; every
\* segment when k >= count.
C7_SearchRanked ==
    Searched =>
        /\ Len(result) = (IF topK < Len(dbChunks) THEN topK ELSE Len(dbChunks))
        /\ \A p \in 1..Len(result) :
              \E j \in 1..Len(dbChunks) : result[p] = dbChunks[j] /\ RankOf(j) = p

\* C7 witness: a search with k below the count whose cut falls between two
\* equally similar segments, a more similar segment having been added last.
C7_Witness ==
    /\ Searched
    /\ Len(dbChunks) = 3
    /\ topK = 2
    /\ SimEqual(SimOf(1), SimOf(2))
    /\ SimGreater(SimOf(3), SimOf(1))
    /\ result = <<dbChunks[3], dbChunks[1]>>

DimensionValid(j) == Len(dbChunks[j].embedding) = Len(query)

\* C8: a stored segment whose vector length differs from the query's is
\* strictly less similar than every dimensionally valid segment, so every
\* valid segment is in the result before it.
C8_MismatchRanksLast ==
    Searched =>
        \A m \in 1..Len(dbChunks), v \in 1..Len(dbChunks) :
            (~DimensionValid(m) /\ DimensionValid(v)) =>
                /\ SimGreater(SimOf(v), SimOf(m))
                /\ \A p \in 1..Len(result) :
                      result[p] = dbChunks[m] =>
                          \E q \in 1..(p - 1) : result[q] = dbChunks[v]

\* C9: isReady is true exactly when a segment is stored; after reset,
\* whatever was stored, isReady is false and every search is empty.
C9_ResetClears ==
    /\ isReady(dbChunks) <=> (dbChunks # <<>>)
    /\ lastOp = "reset" =>
          /\ ~isReady(dbChunks)
          /\ \A q \in Vectors, k \in 0..MaxTopK : search(dbChunks, q, k) = <<>>
    /\ (lastOp = "search" /\ ~isReady(dbChunks)) => result = <<>>

\* C9 witness: a reset of an index that held segments.
C9_Witness ==
    /\ lastOp = "reset"
    /\ sizeBefore >= 2

IsZeroVector(v) == \A c \in 1..Len(v) : v[c] = 0

\* Some vector of the pair scored at sorted position p has zero magnitude.
ZeroInvolved(p) ==
    \/ IsZeroVector(query)
    \/ IsZeroVector(similarities[p].chunk.embedding)

----------------------------------------------------------------------------
(* Properties of the whole app, checked under SpecChat                     *)

\* The last step was a question handler's search of the index.
QuerySearched == lastOp = "search"

\* Where the text of the p-th returned segment starts in the context.
RECURSIVE ContextOffset(_)
ContextOffset(p) ==
    IF p = 1 THEN 0
    ELSE ContextOffset(p - 1) + Len(result[p - 1].text) + Len(separator)

\* C13: when the query embedding succeeds the context is the texts of the
\* segments search(embedding, 5) returns, best first, joined by the
\* separator: at most 5 texts, and the empty string when the index is empty.
C13_ContextAssembled ==
    QuerySearched =>
        LET n == Len(result)
        IN  /\ topK = 5
            /\ n = (IF Len(dbChunks) < 5 THEN Len(dbChunks) ELSE 5)
            /\ \A p \in 1..n :
                  \E j \in 1..Len(dbChunks) : result[p] = dbChunks[j] /\ RankOf(j) = p
            /\ n = 0 => context = <<>>
            /\ n > 0 => Len(context) = ContextOffset(n) + Len(result[n].text)
            /\ \A p \in 1..n :
                  /\ \A c \in 1..Len(result[p].text) :
                        context[ContextOffset(p) + c] = result[p].text[c]
                  /\ p < n =>
                        \A c \in 1..Len(separator) :
                            context[ContextOffset(p) + Len(result[p].text) + c]
                              = <<"\n", "-", "-", "-", "\n">>[c]

\* C13 witness: a question searched an index of six segments; five texts
\* were joined, and the best one is not the first stored.
C13_Witness ==
    /\ QuerySearched
    /\ Len(dbChunks) = 6
    /\ Len(result) = 5
    /\ result[1] # dbChunks[1]
    /\ SimGreater(SimOf(result[1].id + 1), SimOf(1))
    /\ Len(context) = 5 * 2 + 4 * 5

\* C16: no search executes on the index while an ingestion run is in
\* progress (state PROCESSING), however uploads, resets and questions in
\* flight interleave.
C16_NoSearchWhileProcessing ==
    QuerySearched => appState # "PROCESSING"

\* Every stored segment is a chunk of the run started last, no run is in
\* flight outside PROCESSING, and the index is empty while an upload can
\* be started.
OneRunOneDocument ==
    /\ (appState # "PROCESSING") <=> (pc = "idle")
    /\ outstanding \in {0, 1}
    /\ appState = "INITIAL" => dbChunks = <<>>
    /\ Len(dbChunks) <= Len(chunks)
    /\ \A p \in 1..Len(dbChunks) :
          dbChunks[p].id = p - 1 /\ dbChunks[p].text = chunks[p]

\* The index changes only by a reset that empties it or by the running
\* ingestion appending chunks of its document; a run starts only when none
\* is in flight, and starts by emptying the index.
OneRunOneDocumentStep ==
    /\ dbChunks' # dbChunks =>
          \/ dbChunks' = <<>> /\ lastOp' = "reset"
          \/ /\ appState = "PROCESSING"
             /\ pc = "embedding"
             /\ lastOp' = "add"
             /\ chunks' = chunks
             /\ Len(dbChunks') > Len(dbChunks)
             /\ SubSeq(dbChunks', 1, Len(dbChunks)) = dbChunks
    /\ (appState # "PROCESSING" /\ appState' = "PROCESSING") =>
          /\ appState = "INITIAL"
          /\ pc = "idle"
          /\ outstanding = 0
          /\ lastOp' = "reset"
          /\ dbChunks' = <<>>
    /\ (appState = "PROCESSING" /\ appState' # "PROCESSING") =>
          pc' = "idle" /\ outstanding' = 0

\* C17: the index holds at most one document: whatever uploads, resets,
\* failures and questions came before, every stored segment was added by the
\* run started last; the index grows only by that run's appends and is
\* emptied only by reset, which every upload performs first; no two runs are
\* in flight at once.
C17_OneDocument == []OneRunOneDocument /\ [][OneRunOneDocumentStep]_vars

\* C17 witness: a second document is being ingested (a question of the
\* first document's chat is still in flight) and has committed segments.
C17_Witness ==
    /\ appState = "PROCESSING"
    /\ pc = "embedding"
    /\ Len(dbChunks) >= 2
    /\ \E q \in 1..Len(queries) : ~queries[q].mounted

\* The step is one of a question handler: one starts, ends, or moves on.
QueryStep ==
    \/ Len(queries') # Len(queries)
    \/ \E q \in 1..Len(queries) : queries'[q].stage # queries[q].stage

\* C18: a question never changes the index: whether its embedding call
\* fails, its search runs or its answer fails, the stored segments (ids,
\* texts, vectors, order) are the same after the step as before.
C18_QueryKeepsIndex ==
    [][ QueryStep => dbChunks' = dbChunks ]_vars

\* C18 witness: the search of a mounted question has just ranked a later
\* segment first, and the index still holds its six segments in insertion
\* order.
C18_Witness ==
    /\ QuerySearched
    /\ appState = "READY"
    /\ \E q \in 1..Len(queries) : queries[q].mounted /\ queries[q].stage = "answering"
    /\ Len(dbChunks) = 6
    /\ result[1].id > 0
    /\ \A p \in 1..6 : dbChunks[p].id = p - 1

\* In READY the run has returned, every batch was issued and answered well,
\* the index holds one segment per non-blank chunk of the document, and the
\* progress reported last is 100.
ReadyMeansIngested ==
    appState = "READY" =>
        /\ pc = "idle"
        /\ outstanding = 0
        /\ Len(chunks) = NonEmptyRawCount
        /\ TextsInCalls(calls, Len(calls)) = Len(chunks)
        /\ calls # <<>> => lastResponse.kind = "ok"
        /\ Len(dbChunks) = Len(chunks)
        /\ \A p \in 1..Len(chunks) : dbChunks[p].text = chunks[p]
        /\ progress = 100
        /\ reported[Len(reported)] = 100

\* The adapter response consumed by the step is not one embedding per text
\* of the batch.
BatchFails ==
    /\ outstanding' < outstanding
    /\ \/ lastResponse'.kind # "ok"
       \/ Len(lastResponse'.values) # Len(calls[Len(calls)].texts)

\* READY is entered from PROCESSING only, by the step that commits the last
\* batch (or finds nothing to embed); a step that fails ends the run in
\* ERROR; ERROR is left by reset only; questions start in READY only.
ReadyOnlyWhenIngested ==
    /\ (appState # "READY" /\ appState' = "READY") =>
          /\ appState = "PROCESSING"
          /\ \/ /\ pc = "embedding"
                /\ i + API_BATCH_SIZE >= Len(chunks)
                /\ Len(dbChunks') = Len(dbChunks) + Len(calls[Len(calls)].texts)
             \/ pc = "reading" /\ chunks' = <<>>
    /\ (appState = "PROCESSING" /\ (BatchFails \/ (pc' = "idle" /\ page' = page /\ pc # "embedding"))) =>
          appState' = "ERROR" /\ error' # "null"
    /\ appState = "ERROR" => appState' \in {"ERROR", "INITIAL"}
    /\ Len(queries') > Len(queries) => appState = "READY" /\ appState' = "READY"

====
